---- MODULE Spec2Model ----
(***************************************************************************)
(* State-machine model of src/app.py, the Streamlit pricing dashboard.     *)
(*                                                                         *)
(* One render of the script is a run of the stages                         *)
(*   carregar -> sidebar -> filtro -> secoes -> simulador -> alerta        *)
(*            -> rodape -> pronto                                          *)
(* and may end early in "parado" (st.stop) or "abortado" (an exception no  *)
(* handler of the script catches).                                         *)
(*                                                                         *)
(* Conventions of the model                                                *)
(*  - a table is [cols, rows]; a row carries the cells the script reads by *)
(*    value: Data, Produto, Cliente and the FOB price.  The other columns  *)
(*    matter only by their presence in cols.                               *)
(*  - a timestamp is an integer number of half days; NaT is -1.            *)
(*    Timestamp.date() / Series.dt.date is DataDe (integer division).      *)
(*  - a missing Produto or Cliente cell is the value NaN.                  *)
(*  - prices are integers; the simulator works in hundredths, its sliders  *)
(*    in ticks of a tenth (cambio, futuro_soja) or of a unit (petroleo).   *)
(***************************************************************************)
EXTENDS Integers, Sequences, FiniteSets, TLC

VARIABLES
  arquivo,        \* what is stored at caminho ('_data/df_case.xlsx')
  cache,          \* st.cache_data's memo of carregar_dados()
  pc,             \* position of the running script
  df,             \* module-level df (line 58)
  msgs,           \* messages put on the page by this render
  produtos,       \* multiselect "Produtos:"
  periodo,        \* slider "Periodo:" <<data_inicio, data_fim>>, or Nenhum
  clientes,       \* multiselect "Clientes:"
  df_filtrado,    \* the filtered view (lines 103-120)
  cambio,         \* slider, tenths of R$/US$
  petroleo,       \* slider, US$/barril
  futuro_soja,    \* slider, tenths of US$/bushel
  preco_estimado, \* hundredths; -1 before the simulator ran
  gemea,          \* a second render of the alert section on reordered rows
  falha_filtro    \* the step of the filter block that raised in this render

vars == <<arquivo, cache, pc, df, msgs, produtos, periodo, clientes,
          df_filtrado, cambio, petroleo, futuro_soja, preco_estimado, gemea,
          falha_filtro>>

----------------------------------------------------------------------------
(* Bounds of the model *)

MaxLinhas == 2
MaxTs == 3
MaxDesvio == 3
MaxGrupo == 2
MaxPreco == 2

----------------------------------------------------------------------------
(* Values *)

NaN == "NaN"
NaT == -1
Nenhum == <<>>

ColData == "Data"
ColProduto == "Produto"
ColFOB == "Preco FOB ($/t)"
ColCFR == "CFR ($/t)"
ColCliente == "Cliente"
ColQuantidade == "Quantidade comercializada"
ColCambio == "Cambio (R$/US$)"
ColMilho == "FuturoMilho"
ColSoja == "FuturoSoja"
ColPetroleo == "CotacaoPetroleo"

colunas_necessarias == {ColData, ColProduto, ColFOB, ColCFR}
ColunasCommodities == {ColMilho, ColSoja, ColPetroleo}
ColunasOpcionais == {ColCliente, ColQuantidade, ColCambio} \cup ColunasCommodities
TodasColunas == colunas_necessarias \cup ColunasOpcionais

DataFrameVazio == [cols |-> {}, rows |-> <<>>]

\* DataFrame.empty: some axis has length 0
Empty(t) == t.cols = {} \/ Len(t.rows) = 0

\* Timestamp.date(), Series.dt.date
DataDe(ts) == ts \div 2

Range(s) == {s[i] : i \in 1..Len(s)}

----------------------------------------------------------------------------
(* carregar_dados, lines 23-50 *)

\* a message on the page: <<call, text>>
caminho == "_data/df_case.xlsx"
ErroArquivo == <<"st.error", "Arquivo nao encontrado", caminho>>
ErroColuna(c) == <<"st.error", "Coluna obrigatoria nao encontrada", c>>
ErroCarregar == <<"st.error", "Erro ao carregar dados", "">>
ErroFiltro == <<"st.error", "Erro ao aplicar filtros", "">>
AvisoAlerta == <<"st.warning", "Nao foi possivel verificar alertas", "">>
ALTO == <<"st.error", "ALERTA: Preco FOB atual acima de 2 desvios padrao", "">>
BAIXO == <<"st.warning", "Atencao: Preco FOB atual abaixo de 2 desvios padrao", "">>
NORMAL == <<"st.success", "Preco FOB dentro da faixa normal de variacao", "">>

\* the body of carregar_dados run on what is on disk: the table returned and
\* the st.error calls made
CorpoCarregarDados(arq) ==
  IF arq.estado = "ausente"
    THEN [df |-> DataFrameVazio, erros |-> {ErroArquivo}]
  ELSE IF arq.estado = "ilegivel"
    THEN [df |-> DataFrameVazio, erros |-> {ErroCarregar}]
  ELSE [df |-> [cols |-> arq.cols, rows |-> arq.rows],
        erros |-> {ErroColuna(c) : c \in colunas_necessarias \ arq.cols}]

SemCache == [cheio |-> FALSE, df |-> DataFrameVazio, erros |-> {}]

\* faulty variant: the loader run again on every call
carregar_dados_sem_memo(arq, memo) ==
  LET r == CorpoCarregarDados(arq)
  IN [df |-> r.df, erros |-> r.erros,
      cache |-> [cheio |-> TRUE, df |-> r.df, erros |-> r.erros]]

\* @st.cache_data: the first call runs the body and stores its result and
\* its messages; a later call returns the stored table and replays them
carregar_dados(arq, memo) ==
  IF memo.cheio
    THEN [df |-> memo.df, erros |-> memo.erros, cache |-> memo]
    ELSE LET r == CorpoCarregarDados(arq)
         IN [df |-> r.df, erros |-> r.erros,
             cache |-> [cheio |-> TRUE, df |-> r.df, erros |-> r.erros]]

----------------------------------------------------------------------------
(* sidebar, lines 67-100 *)

produtos_disponiveis(t) ==
  IF ColProduto \in t.cols THEN {r.Produto : r \in Range(t.rows)} ELSE {}

clientes_disponiveis(t) ==
  IF ColCliente \in t.cols THEN {r.Cliente : r \in Range(t.rows)} ELSE {}

\* Series.min()/max() skip NaT
DatasValidas(t) == {r.Data : r \in Range(t.rows)} \ {NaT}
MinDe(S) == CHOOSE m \in S : \A o \in S : m <= o
MaxDe(S) == CHOOSE m \in S : \A o \in S : m >= o
data_min(t) == DataDe(MinDe(DatasValidas(t)))
data_max(t) == DataDe(MaxDe(DatasValidas(t)))

\* df['Data'].min() is NaT when no row has a date, and NaT.date() raises
SidebarAborta(t) == ColData \in t.cols /\ DatasValidas(t) = {}

\* the values the range slider can return
Periodos(t) ==
  IF ColData \in t.cols
    THEN {p \in (data_min(t)..data_max(t)) \X (data_min(t)..data_max(t)) :
            p[1] <= p[2]}
    ELSE {Nenhum}

PeriodoPadrao(t) ==
  IF ColData \in t.cols THEN <<data_min(t), data_max(t)>> ELSE Nenhum

----------------------------------------------------------------------------
(* Aplicar filtros, lines 103-120 *)

SemFalha == "nenhuma"

\* the steps of the try block that run for a selection
PassosFiltro(t, prods, per, clis) ==
  (IF prods # {} THEN {"produto"} ELSE {})
  \cup (IF ColData \in t.cols /\ per # Nenhum THEN {"data"} ELSE {})
  \cup (IF clis # {} THEN {"cliente"} ELSE {})

\* faulty variant: isin that does not match NaN with NaN
FiltroProduto_sem_nan(rows, prods) ==
  LET Keep(r) == r.Produto # NaN /\ r.Produto \in prods IN SelectSeq(rows, Keep)

\* df_filtrado[df_filtrado['Produto'].isin(produtos)]; isin matches NaN
FiltroProduto(rows, prods) ==
  LET Keep(r) == r.Produto \in prods IN SelectSeq(rows, Keep)

\* (Data.dt.date >= data_inicio) & (Data.dt.date <= data_fim); a comparison
\* with NaT is False
FiltroData(rows, per) ==
  LET Keep(r) == /\ r.Data # NaT
                 /\ DataDe(r.Data) >= per[1]
                 /\ DataDe(r.Data) <= per[2]
  IN SelectSeq(rows, Keep)

FiltroCliente(rows, clis) ==
  LET Keep(r) == r.Cliente \in clis IN SelectSeq(rows, Keep)

\* faulty variant: the except branch keeps the partly narrowed view
AplicarFiltros_sem_recuo(t, prods, per, clis, falha) ==
  LET passos == PassosFiltro(t, prods, per, clis)
      r1 == IF "produto" \in passos /\ falha # "produto"
              THEN FiltroProduto(t.rows, prods) ELSE t.rows
      r2 == IF "data" \in passos /\ falha \notin {"produto", "data"}
              THEN FiltroData(r1, per) ELSE r1
      r3 == IF "cliente" \in passos /\ falha = SemFalha
              THEN FiltroCliente(r2, clis) ELSE r2
  IN [df |-> [cols |-> t.cols, rows |-> r3], erro |-> falha # SemFalha]

\* faulty variant: the upper end of the range is exclusive
AplicarFiltros_fim_exclusivo(t, prods, per, clis, falha) ==
  LET passos == PassosFiltro(t, prods, per, clis)
      r1 == IF "produto" \in passos THEN FiltroProduto(t.rows, prods) ELSE t.rows
      r2 == IF "data" \in passos
              THEN LET Keep(r) == /\ r.Data # NaT
                                  /\ DataDe(r.Data) >= per[1]
                                  /\ DataDe(r.Data) < per[2]
                   IN SelectSeq(r1, Keep)
              ELSE r1
      r3 == IF "cliente" \in passos THEN FiltroCliente(r2, clis) ELSE r2
  IN IF falha # SemFalha
       THEN [df |-> t, erro |-> TRUE]
       ELSE [df |-> [cols |-> t.cols, rows |-> r3], erro |-> FALSE]

\* the try/except of lines 103-120.  falha names the step that raises
\* (SemFalha: none does); a step also raises when it reads a column the
\* table does not have.
AplicarFiltros(t, prods, per, clis, falha) ==
  LET passos == PassosFiltro(t, prods, per, clis)
      raises == \/ falha # SemFalha
                \/ "produto" \in passos /\ ColProduto \notin t.cols
                \/ "cliente" \in passos /\ ColCliente \notin t.cols
      r1 == IF "produto" \in passos THEN FiltroProduto(t.rows, prods) ELSE t.rows
      r2 == IF "data" \in passos THEN FiltroData(r1, per) ELSE r1
      r3 == IF "cliente" \in passos THEN FiltroCliente(r2, clis) ELSE r2
  IN IF raises
       THEN [df |-> t, erro |-> TRUE]
       ELSE [df |-> [cols |-> t.cols, rows |-> r3], erro |-> FALSE]

----------------------------------------------------------------------------
(* Sections 1-5, lines 125-380 *)

colunas_numericas(t) ==
  t.cols \cap {ColFOB, ColCFR, ColCambio, ColPetroleo, ColMilho, ColSoja}

\* tab2: groupby(...).agg({'FuturoMilho', 'FuturoSoja', 'CotacaoPetroleo'})
\* raises KeyError when one of the three columns does not exist
TendenciasAborta(t) ==
  /\ ~Empty(t) /\ ColData \in t.cols
  /\ ~(ColunasCommodities \subseteq t.cols)

\* px.box(..., hover_data=['Data']) raises when there is no column Data
ProdutoAborta(t) ==
  /\ ~Empty(t) /\ ColProduto \in t.cols
  /\ ColFOB \in t.cols /\ ColData \notin t.cols

\* px.scatter(x=var_x, y=var_y, ..., hover_data=['Data']) raises when var_y
\* or Data is not a column
RelacoesAborta(t, var_y) ==
  /\ ~Empty(t) /\ ColFOB \in t.cols
  /\ Cardinality(colunas_numericas(t)) > 1
  /\ (ColData \notin t.cols \/ var_y \notin t.cols)

\* whether a section between the title and the simulator raises
SecoesAbortam(t, var_y) ==
  TendenciasAborta(t) \/ ProdutoAborta(t) \/ RelacoesAborta(t, var_y)

----------------------------------------------------------------------------
(* Simulador de Cenarios, lines 388-406 *)

preco_base == 450
coef_cambio == 20
\* coef_petroleo = 0.8 and coef_soja = 2.5, in tenths
coef_petroleo == 8
coef_soja == 25
\* slider ranges and defaults: cambio and futuro_soja in tenths
CambioMin == 40
CambioMax == 70
CambioPadrao == 52
PetroleoMin == 60
PetroleoMax == 150
PetroleoPadrao == 85
SojaMin == 100
SojaMax == 200
SojaPadrao == 145

\* faulty variant: the oil term measured from 0 instead of from 80
PrecoEstimado_sem_ref(c, p, s) ==
  100 * preco_base + 10 * coef_cambio * (c - 50)
    + 10 * coef_petroleo * p + coef_soja * (s - 140)

\* line 405, in hundredths: preco_base + coef_cambio * (cambio - 5.0)
\*   + coef_petroleo * (petroleo - 80) + coef_soja * (futuro_soja - 14.0)
PrecoEstimado(c, p, s) ==
  100 * preco_base + 10 * coef_cambio * (c - 50)
    + 10 * coef_petroleo * (p - 80) + coef_soja * (s - 140)

----------------------------------------------------------------------------
(* Monitoramento de Alertas, lines 413-431 *)

janela == 30
LimiarDesvios == 2

\* order of the sort key: NaT sorts last (na_position='last')
KeyLE(a, b) == b = NaT \/ (a # NaT /\ a <= b)

\* a stable sort on Data, by insertion
RECURSIVE InsertSorted(_, _)
InsertSorted(s, r) ==
  IF s = <<>> THEN <<r>>
  ELSE IF KeyLE(Head(s).Data, r.Data)
    THEN <<Head(s)>> \o InsertSorted(Tail(s), r)
    ELSE <<r>> \o s

RECURSIVE SortAcc(_, _)
SortAcc(rows, acc) ==
  IF rows = <<>> THEN acc
  ELSE SortAcc(Tail(rows), InsertSorted(acc, Head(rows)))

StableSort(rows) == SortAcc(rows, <<>>)

Reverse(s) == [i \in 1..Len(s) |-> s[Len(s) + 1 - i]]

\* the orders sort_values' default quicksort may leave rows of equal Data in
Politicas == {"estavel", "invertida"}

\* faulty variant: iloc[-1] and iloc[-30:] taken from the view as it comes
SortValues_sem_ordenar(rows, politica) == rows

\* df_filtrado.sort_values('Data')
SortValues(rows, politica) ==
  IF politica = "estavel" THEN StableSort(rows)
  ELSE StableSort(Reverse(rows))

RECURSIVE Soma(_)
Soma(s) == IF s = <<>> THEN 0 ELSE Head(s) + Soma(Tail(s))

Quadrados(s) == [i \in 1..Len(s) |-> s[i] * s[i]]

\* N * sum of squared deviations from the mean of sample s (N = Len(s)):
\* the sample variance is SQ(s) / (N * (N - 1))
SQ(s) == Len(s) * Soma(Quadrados(s)) - Soma(s) * Soma(s)

\* x > mean(s) + k * std(s), std with ddof = 1, decided without the root:
\* with u = N*x - sum(s), u > 0 and (N - 1) * u^2 > k^2 * N * SQ(s)
Acima(x, s, k) ==
  LET u == Len(s) * x - Soma(s)
  IN u > 0 /\ (Len(s) - 1) * u * u > k * k * Len(s) * SQ(s)

\* x < mean(s) - k * std(s)
Abaixo(x, s, k) ==
  LET u == Len(s) * x - Soma(s)
  IN u < 0 /\ (Len(s) - 1) * u * u > k * k * Len(s) * SQ(s)

Precos(rows) == [i \in 1..Len(rows) |-> rows[i].FOB]

\* faulty variant: the threshold taken as 3 standard deviations
Classificar_3desvios(ord) ==
  LET fob == Precos(ord)
      preco_atual == fob[Len(fob)]
      ultimos == SubSeq(fob, Len(fob) - janela + 1, Len(fob))
  IN IF Acima(preco_atual, ultimos, 3) THEN ALTO
     ELSE IF Abaixo(preco_atual, ultimos, 3) THEN BAIXO
     ELSE NORMAL

\* lines 419-428 on the sorted rows: preco_atual = iloc[-1], media_30d and
\* desvio_30d over iloc[-30:]
Classificar(ord) ==
  LET fob == Precos(ord)
      preco_atual == fob[Len(fob)]
      ultimos == SubSeq(fob, Len(fob) - janela + 1, Len(fob))
  IN IF Acima(preco_atual, ultimos, LimiarDesvios) THEN ALTO
     ELSE IF Abaixo(preco_atual, ultimos, LimiarDesvios) THEN BAIXO
     ELSE NORMAL

Classes == {ALTO, BAIXO, NORMAL}

\* the messages of the alert section for view t.  falha: the statistics of
\* lines 419-421 raise (a price cell that is not a number), which the
\* except of line 430 turns into a warning
Alerta(t, politica, falha) ==
  IF Empty(t) \/ ColFOB \notin t.cols \/ ColData \notin t.cols THEN {}
  ELSE LET df_ordenado == SortValues(t.rows, politica)
       IN IF Len(df_ordenado) > janela
            THEN IF falha THEN {AvisoAlerta} ELSE {Classificar(df_ordenado)}
            ELSE {}

----------------------------------------------------------------------------
(* What may be stored at caminho *)

ArquivoAusente == [estado |-> "ausente", cols |-> {}, rows |-> <<>>]
\* pd.read_excel or pd.to_datetime raises on it
ArquivoIlegivel == [estado |-> "ilegivel", cols |-> {}, rows |-> <<>>]

ProdutosU == <<"A", "B", NaN>>
ClientesU == <<"X", NaN>>

\* row i of a generated table; a cell of a column the table lacks is blank
LinhaGerada(cols, i) ==
  [Data    |-> IF ColData \in cols THEN (i - 1) % MaxTs ELSE NaT,
   Produto |-> IF ColProduto \in cols THEN ProdutosU[1 + (i % 2)] ELSE NaN,
   Cliente |-> IF ColCliente \in cols THEN "X" ELSE NaN,
   FOB     |-> IF ColFOB \in cols THEN i % (MaxPreco + 1) ELSE 0]

Tabela(cols, n) ==
  [estado |-> "ok", cols |-> cols, rows |-> [i \in 1..n |-> LinhaGerada(cols, i)]]

VariantesColunas ==
  {TodasColunas \ {c} : c \in colunas_necessarias}
  \cup {colunas_necessarias \cup o : o \in SUBSET ColunasOpcionais}

Tamanhos == {0, 1, janela, janela + 1}

\* files of the render specification: every column variant, short and long
Arquivos ==
  {ArquivoAusente, ArquivoIlegivel}
  \cup {Tabela(c, n) : c \in VariantesColunas, n \in Tamanhos}

\* files of the cache specification
ArquivosCache ==
  {ArquivoAusente, ArquivoIlegivel}
  \cup {Tabela(c, n) : c \in {TodasColunas, TodasColunas \ {ColFOB}},
                       n \in 0..MaxLinhas}

\* rows of the filter specification: every combination of a timestamp or
\* NaT, a product or NaN, a customer or NaN
NumLinhasU == (MaxTs + 1) * Len(ProdutosU) * Len(ClientesU)
LinhaU(k) ==
  [Data    |-> (k % (MaxTs + 1)) - 1,
   Produto |-> ProdutosU[1 + ((k \div (MaxTs + 1)) % Len(ProdutosU))],
   Cliente |-> ClientesU[1 + (k \div ((MaxTs + 1) * Len(ProdutosU)))],
   FOB     |-> 0]

\* tables of 1..MaxLinhas rows, one per multiset of rows
IndicesCrescentes ==
  UNION {{f \in [1..n -> 0..(NumLinhasU - 1)] :
            \A i \in 1..(n - 1) : f[i] <= f[i + 1]} : n \in 1..MaxLinhas}

ArquivosLinhas ==
  {[estado |-> "ok", cols |-> c, rows |-> [i \in 1..Len(f) |-> LinhaU(f[i])]] :
     c \in {TodasColunas, TodasColunas \ {ColCliente}}, f \in IndicesCrescentes}

----------------------------------------------------------------------------
(* The render *)

SemGemea == [df |-> DataFrameVazio, msgs |-> {}, feito |-> FALSE]

Parados == {"inicio", "pronto", "parado", "abortado"}

InitCom(arqs) ==
  /\ arquivo \in arqs
  /\ cache = SemCache
  /\ pc = "inicio"
  /\ df = DataFrameVazio
  /\ msgs = {}
  /\ produtos = {}
  /\ periodo = Nenhum
  /\ clientes = {}
  /\ df_filtrado = DataFrameVazio
  /\ cambio = CambioPadrao
  /\ petroleo = PetroleoPadrao
  /\ futuro_soja = SojaPadrao
  /\ preco_estimado = -1
  /\ gemea = SemGemea
  /\ falha_filtro = SemFalha

\* lines 58-62: a (re)run of the script starts; df = carregar_dados() and
\* st.stop() on an empty table
Carregar ==
  /\ pc \in Parados
  /\ LET r == carregar_dados(arquivo, cache)
     IN /\ cache' = r.cache
        /\ df' = r.df
        /\ msgs' = r.erros
        /\ pc' = IF Empty(r.df) THEN "parado" ELSE "sidebar"
  /\ produtos' = {}
  /\ periodo' = Nenhum
  /\ clientes' = {}
  /\ df_filtrado' = DataFrameVazio
  /\ preco_estimado' = -1
  /\ falha_filtro' = SemFalha
  /\ UNCHANGED <<arquivo, cambio, petroleo, futuro_soja, gemea>>

\* lines 67-100: the widgets return a selection among their options
Sidebar ==
  /\ pc = "sidebar"
  /\ IF SidebarAborta(df)
       THEN /\ pc' = "abortado"
            /\ UNCHANGED <<produtos, periodo, clientes>>
       ELSE /\ pc' = "filtro"
            /\ produtos' \in SUBSET produtos_disponiveis(df)
            /\ periodo' \in Periodos(df)
            /\ clientes' \in SUBSET clientes_disponiveis(df)
  /\ UNCHANGED <<arquivo, cache, df, msgs, df_filtrado, cambio, petroleo,
                 futuro_soja, preco_estimado, gemea, falha_filtro>>

\* lines 103-120
Filtrar ==
  /\ pc = "filtro"
  /\ \E falha \in {SemFalha} \cup PassosFiltro(df, produtos, periodo, clientes) :
       LET r == AplicarFiltros(df, produtos, periodo, clientes, falha)
       IN /\ df_filtrado' = r.df
          /\ msgs' = msgs \cup (IF r.erro THEN {ErroFiltro} ELSE {})
          /\ falha_filtro' = falha
  /\ pc' = "secoes"
  /\ UNCHANGED <<arquivo, cache, df, produtos, periodo, clientes, cambio,
                 petroleo, futuro_soja, preco_estimado, gemea>>

\* lines 125-380; var_y is the selectbox "Variavel Y:"
Secoes ==
  /\ pc = "secoes"
  /\ \E var_y \in {ColFOB, ColCFR} :
       pc' = IF SecoesAbortam(df_filtrado, var_y) THEN "abortado" ELSE "simulador"
  /\ UNCHANGED <<arquivo, cache, df, msgs, produtos, periodo, clientes,
                 df_filtrado, cambio, petroleo, futuro_soja, preco_estimado, gemea, falha_filtro>>

\* lines 385-406
Simulador ==
  /\ pc = "simulador"
  /\ preco_estimado' = PrecoEstimado(cambio, petroleo, futuro_soja)
  /\ pc' = "alerta"
  /\ UNCHANGED <<arquivo, cache, df, msgs, produtos, periodo, clientes,
                 df_filtrado, cambio, petroleo, futuro_soja, gemea, falha_filtro>>

\* lines 411-431
MonitorarAlertas ==
  /\ pc = "alerta"
  /\ \E politica \in Politicas, falha \in BOOLEAN :
       msgs' = msgs \cup Alerta(df_filtrado, politica, falha)
  /\ pc' = "rodape"
  /\ UNCHANGED <<arquivo, cache, df, produtos, periodo, clientes, df_filtrado,
                 cambio, petroleo, futuro_soja, preco_estimado, gemea, falha_filtro>>

\* lines 436-437
Rodape ==
  /\ pc = "rodape"
  /\ pc' = "pronto"
  /\ UNCHANGED <<arquivo, cache, df, msgs, produtos, periodo, clientes,
                 df_filtrado, cambio, petroleo, futuro_soja, preco_estimado, gemea, falha_filtro>>

Render ==
  \/ Carregar
  \/ Sidebar
  \/ Filtrar
  \/ Secoes
  \/ Simulador
  \/ MonitorarAlertas
  \/ Rodape

Init == InitCom(Arquivos)
Next == Render
Spec == Init /\ [][Next]_vars

----------------------------------------------------------------------------
(* The filter on every small table *)

InitFiltro == InitCom(ArquivosLinhas)
NextFiltro ==
  \/ Carregar
  \/ Sidebar
  \/ Filtrar
SpecFiltro == InitFiltro /\ [][NextFiltro]_vars

----------------------------------------------------------------------------
(* Renders of one process while the file at caminho changes *)

\* the file is replaced, removed or created between two renders
MudarArquivo ==
  /\ pc \in Parados
  /\ arquivo' \in ArquivosCache \ {arquivo}
  /\ UNCHANGED <<cache, pc, df, msgs, produtos, periodo, clientes, df_filtrado,
                 cambio, petroleo, futuro_soja, preco_estimado, gemea, falha_filtro>>

\* the process is restarted: a new process starts with an empty memo
Reiniciar ==
  /\ pc \in Parados \ {"inicio"}
  /\ cache' = SemCache
  /\ pc' = "inicio"
  /\ df' = DataFrameVazio
  /\ msgs' = {}
  /\ produtos' = {}
  /\ periodo' = Nenhum
  /\ clientes' = {}
  /\ df_filtrado' = DataFrameVazio
  /\ preco_estimado' = -1
  /\ falha_filtro' = SemFalha
  /\ UNCHANGED <<arquivo, cambio, petroleo, futuro_soja, gemea>>

InitCache == InitCom(ArquivosCache)
NextCache ==
  \/ Render
  \/ MudarArquivo
  \/ Reiniciar
SpecCache == InitCache /\ [][NextCache]_vars

----------------------------------------------------------------------------
(* The simulator under every slider position *)

ArquivoExemplo == Tabela(TodasColunas, 1)

\* the script stands at stage etapa of a render of the table of arq under
\* the default selection, twin view g beside it
EstadoEm(etapa, arq, g) ==
  /\ arquivo = arq
  /\ cache = carregar_dados(arq, SemCache).cache
  /\ pc = etapa
  /\ df = cache.df
  /\ msgs = {}
  /\ produtos = produtos_disponiveis(df)
  /\ periodo = PeriodoPadrao(df)
  /\ clientes = clientes_disponiveis(df)
  /\ df_filtrado = AplicarFiltros(df, produtos, periodo, clientes, SemFalha).df
  /\ cambio = CambioPadrao
  /\ petroleo = PetroleoPadrao
  /\ futuro_soja = SojaPadrao
  /\ preco_estimado =
       IF etapa = "simulador" THEN -1
       ELSE PrecoEstimado(CambioPadrao, PetroleoPadrao, SojaPadrao)
  /\ gemea = g
  /\ falha_filtro = SemFalha

InitSim == EstadoEm("simulador", ArquivoExemplo, SemGemea)

\* the user moves one slider by one tick (0.1, 1.0, 0.1); the rerun this
\* triggers comes back to the simulator section with the table, the
\* selection and the view it had
MoverSlider ==
  /\ pc = "alerta"
  /\ \E d \in {-1, 1} :
       \/ /\ cambio + d \in CambioMin..CambioMax
          /\ cambio' = cambio + d
          /\ UNCHANGED <<petroleo, futuro_soja>>
       \/ /\ petroleo + d \in PetroleoMin..PetroleoMax
          /\ petroleo' = petroleo + d
          /\ UNCHANGED <<cambio, futuro_soja>>
       \/ /\ futuro_soja + d \in SojaMin..SojaMax
          /\ futuro_soja' = futuro_soja + d
          /\ UNCHANGED <<cambio, petroleo>>
  /\ pc' = "simulador"
  /\ preco_estimado' = -1
  /\ UNCHANGED <<arquivo, cache, df, msgs, produtos, periodo, clientes,
                 df_filtrado, gemea, falha_filtro>>

NextSim ==
  \/ Simulador
  \/ MoverSlider
SpecSim == InitSim /\ [][NextSim]_vars

----------------------------------------------------------------------------
(* The alert section on 31- and 32-row views, and on the same rows reordered *)

PrecoCentral == 4 * MaxDesvio

Repetir(x, n) == [i \in 1..n |-> x]

RECURSIVE ParesDe(_, _)
\* c[d] prices PrecoCentral + d and c[d] prices PrecoCentral - d, for d = k..1
ParesDe(c, k) ==
  IF k = 0 THEN <<>>
  ELSE Repetir(PrecoCentral + k, c[k]) \o Repetir(PrecoCentral - k, c[k])
         \o ParesDe(c, k - 1)

\* the numbers of pairs for which janela prices of mean PrecoCentral have
\* an integer sample standard deviation e: sum (x - mean)^2 = (janela - 1) e^2
Contagens ==
  {c \in [1..MaxDesvio -> 0..(janela \div 2)] :
     /\ Soma([d \in 1..MaxDesvio |-> 2 * c[d]]) <= janela
     /\ \E e \in 0..(MaxDesvio + 1) :
          Soma([d \in 1..MaxDesvio |-> 2 * d * d * c[d]]) = (janela - 1) * e * e}

\* janela prices of mean PrecoCentral
Simetrica(c) ==
  LET ps == ParesDe(c, MaxDesvio)
  IN ps \o Repetir(PrecoCentral, janela - Len(ps))

Rodar(s, r) == SubSeq(s, r + 1, Len(s)) \o SubSeq(s, 1, r)

\* rotations that bring a different price to the front
Rotacoes(s) == {0} \cup {r \in 1..(Len(s) - 1) : s[r + 1] # s[r]}

\* a view of one row per price, row i at timestamp (i - 1) \div grupo
Visao(precos, grupo) ==
  [cols |-> TodasColunas,
   rows |-> [i \in 1..Len(precos) |->
               [Data |-> (i - 1) \div grupo, Produto |-> "A", Cliente |-> "X",
                FOB |-> precos[i]]]]

Trocar(s, i, j) ==
  [k \in 1..Len(s) |-> IF k = i THEN s[j] ELSE IF k = j THEN s[i] ELSE s[k]]

ComoArquivo(t) == [estado |-> "ok", cols |-> t.cols, rows |-> t.rows]
GemeaDe(rows) == [df |-> [cols |-> TodasColunas, rows |-> rows],
                  msgs |-> {}, feito |-> FALSE]

\* 31 rows at distinct timestamps: janela prices around PrecoCentral, then
\* a last price; the twin has the rows in reverse order
InitSimetricas ==
  \E c \in Contagens :
    \E r \in Rotacoes(Simetrica(c)) :
      \E j \in (-MaxDesvio)..MaxDesvio :
        LET t == Visao(Rodar(Simetrica(c), r) \o <<PrecoCentral + 3 * j>>, 1)
        IN EstadoEm("alerta", ComoArquivo(t), GemeaDe(Reverse(t.rows)))

\* 31 or 32 rows, grupo rows per timestamp, periodic prices and a last
\* price; the twin has two neighbouring rows exchanged
InitPeriodicas ==
  \E n \in {janela + 1, janela + 2} :
    \E q \in 1..MaxPreco, g \in 1..MaxGrupo, y \in 0..(2 * MaxPreco) :
      \E i \in 1..(n - 1) :
        LET t == Visao([k \in 1..n |->
                          IF k = n THEN y ELSE (k * q) % (MaxPreco + 1)], g)
        IN EstadoEm("alerta", ComoArquivo(t), GemeaDe(Trocar(t.rows, i, i + 1)))

\* the alert section of the twin render
AlertaGemea ==
  /\ pc = "rodape"
  /\ ~gemea.feito
  /\ \E politica \in Politicas :
       gemea' = [gemea EXCEPT !.msgs = Alerta(gemea.df, politica, FALSE),
                              !.feito = TRUE]
  /\ UNCHANGED <<arquivo, cache, pc, df, msgs, produtos, periodo, clientes,
                 df_filtrado, cambio, petroleo, futuro_soja, preco_estimado,
                 falha_filtro>>

InitAlerta == InitSimetricas \/ InitPeriodicas
NextAlerta ==
  \/ MonitorarAlertas
  \/ AlertaGemea
SpecAlerta == InitAlerta /\ [][NextAlerta]_vars

----------------------------------------------------------------------------
(* Properties *)

ErrosDeCarga ==
  {ErroArquivo, ErroCarregar} \cup {ErroColuna(c) : c \in colunas_necessarias}

DepoisDoFiltro == {"secoes", "simulador", "alerta", "rodape", "pronto"}

SelecaoPadrao ==
  /\ produtos = produtos_disponiveis(df)
  /\ periodo = PeriodoPadrao(df)
  /\ clientes = clientes_disponiveis(df)

\* C1: whenever a load error has been reported in a render, the table is
\* empty and the render has stopped at st.stop, before the sidebar.
C1_ErroDeCargaPara ==
  (msgs \cap ErrosDeCarga # {}) => (Empty(df) /\ pc = "parado")

\* C2 as stated: under the default selection the filtered view has exactly
\* the rows of the table, rows with missing cells included.
C2_PadraoDevolveTudo ==
  (pc = "secoes" /\ SelecaoPadrao) => df_filtrado = df

TemData(r) == r.Data # NaT

\* C2 amended: under the default selection, when no filter step raises, the
\* filtered view has exactly the rows of the table that have a date (all
\* rows when the table has no column Data); rows with a missing product or
\* customer are kept.
C2_PadraoDevolveLinhasComData ==
  (pc = "secoes" /\ SelecaoPadrao /\ falha_filtro = SemFalha) =>
     /\ df_filtrado.cols = df.cols
     /\ df_filtrado.rows =
          IF ColData \in df.cols THEN SelectSeq(df.rows, TemData) ELSE df.rows

C2_Testemunha ==
  /\ pc = "secoes" /\ SelecaoPadrao /\ falha_filtro = SemFalha
  /\ \E r \in Range(df_filtrado.rows) : r.Produto = NaN \/ r.Cliente = NaN
  /\ \E r \in Range(df.rows) : r.Data = NaT
  /\ df_filtrado # df

\* the three constraints of a selection, each on its own
PassaProduto(r) == produtos = {} \/ r.Produto \in produtos
PassaData(r) ==
  periodo = Nenhum
    \/ (r.Data # NaT /\ DataDe(r.Data) >= periodo[1] /\ DataDe(r.Data) <= periodo[2])
PassaCliente(r) == clientes = {} \/ r.Cliente \in clientes
PassaTudo(r) == PassaProduto(r) /\ PassaData(r) /\ PassaCliente(r)

\* C3: when no filter step raises, the filtered view holds exactly the rows
\* of the table that meet every constraint of the selection (product in the
\* set, date in the inclusive range, customer in the set), an empty set
\* being no constraint: the intersection of the rows each constraint keeps.
C3_FiltroConjuntivo ==
  (pc = "secoes" /\ falha_filtro = SemFalha) =>
     /\ df_filtrado.rows = SelectSeq(df.rows, PassaTudo)
     /\ Range(df_filtrado.rows) =
          Range(SelectSeq(df.rows, PassaProduto))
            \cap Range(SelectSeq(df.rows, PassaData))
            \cap Range(SelectSeq(df.rows, PassaCliente))

C3_Testemunha ==
  /\ pc = "secoes" /\ falha_filtro = SemFalha
  /\ produtos # {} /\ clientes # {}
  /\ Len(df_filtrado.rows) = 1
  /\ \E r \in Range(df.rows) :
       PassaProduto(r) /\ PassaCliente(r) /\ r.Data # NaT /\ ~PassaData(r)

\* C4: when a step of the filter block raised, the view every later stage
\* reads is the whole table, the error message is on the page, and the
\* render goes on: it is never stopped, and it is aborted only where a
\* later section raises.
C4_FalhaNoFiltroRecua ==
  (falha_filtro # SemFalha) =>
     /\ ErroFiltro \in msgs
     /\ df_filtrado = df
     /\ pc \in DepoisDoFiltro \cup {"abortado"}
     /\ pc = "abortado" =>
          \E var_y \in {ColFOB, ColCFR} : SecoesAbortam(df_filtrado, var_y)

C4_Testemunha ==
  /\ falha_filtro = "cliente"
  /\ pc = "pronto"
  /\ produtos # produtos_disponiveis(df)
  /\ Len(df.rows) > Len(FiltroProduto(df.rows, produtos))
  /\ df_filtrado = df

\* the view of a render of the alert section: n rows at increasing
\* timestamps
SerieOrdenada(rows, n) ==
  /\ Len(rows) = n
  /\ \A i \in 1..(n - 1) : rows[i].Data # NaT /\ rows[i].Data < rows[i + 1].Data

\* x = mean(s) + k * std(s) with std(s) > 0 (sample std), without the root
IgualMediaMais(x, s, k) ==
  LET u == Len(s) * x - Soma(s)
  IN SQ(s) > 0 /\ u > 0 /\ (Len(s) - 1) * u * u = k * k * Len(s) * SQ(s)

IgualMediaMenos(x, s, k) ==
  LET u == Len(s) * x - Soma(s)
  IN SQ(s) > 0 /\ u < 0 /\ (Len(s) - 1) * u * u = k * k * Len(s) * SQ(s)

Primeiros30 == SubSeq(Precos(df_filtrado.rows), 1, 30)
Ultimo == df_filtrado.rows[31].FOB

\* C5: on a date-ordered series of 31 prices, when the alert block does not
\* raise: a last price of mean + 3 std of the first 30 (std > 0) is
\* classified HIGH, one of mean - 3 std LOW, and 31 equal prices NORMAL.
C5_TresDesvios ==
  (pc = "rodape" /\ AvisoAlerta \notin msgs /\ SerieOrdenada(df_filtrado.rows, 31)) =>
     /\ IgualMediaMais(Ultimo, Primeiros30, 3) => msgs \cap Classes = {ALTO}
     /\ IgualMediaMenos(Ultimo, Primeiros30, 3) => msgs \cap Classes = {BAIXO}
     /\ (\A i \in 1..31 : df_filtrado.rows[i].FOB = Ultimo)
          => msgs \cap Classes = {NORMAL}

C5_Testemunha ==
  /\ pc = "rodape" /\ AvisoAlerta \notin msgs
  /\ SerieOrdenada(df_filtrado.rows, 31)
  /\ IgualMediaMais(Ultimo, Primeiros30, 3)
  /\ df_filtrado.rows[1].FOB # df_filtrado.rows[2].FOB
  /\ ALTO \in msgs

\* C6: after the alert section, a view of at most 30 rows shows no
\* classification and no alert warning, and a view of 31 or more rows shows,
\* unless the alert block raised, exactly one of HIGH, LOW, NORMAL.
C6_AlertaSoCom31 ==
  (pc \in {"rodape", "pronto"}) =>
     IF Len(df_filtrado.rows) <= 30
       THEN msgs \cap (Classes \cup {AvisoAlerta}) = {}
       ELSE AvisoAlerta \notin msgs => Cardinality(msgs \cap Classes) = 1

\* C7 as stated: the simulator computes 450 + 20 (fx - 5.0) + 0.8 (oil - 80)
\* + 2.5 (soy - 14.0), and under the default sliders the result is 458.25.
C7_Padrao45825 ==
  (preco_estimado # -1) =>
     /\ preco_estimado =
          45000 + 200 * (cambio - 50) + 80 * (petroleo - 80) + 25 * (futuro_soja - 140)
     /\ (cambio = 52 /\ petroleo = 85 /\ futuro_soja = 145) => preco_estimado = 45825

\* C7 amended: the simulator computes 450 + 20 (fx - 5.0) + 0.8 (oil - 80)
\* + 2.5 (soy - 14.0), and under the default sliders (5.2, 85.0, 14.5) the
\* result is 459.25.
C7_Padrao45925 ==
  (preco_estimado # -1) =>
     /\ preco_estimado =
          45000 + 200 * (cambio - 50) + 80 * (petroleo - 80) + 25 * (futuro_soja - 140)
     /\ (cambio = 52 /\ petroleo = 85 /\ futuro_soja = 145) => preco_estimado = 45925

C7_Testemunha ==
  /\ pc = "alerta"
  /\ cambio = 52 /\ petroleo = 85 /\ futuro_soja = 145
  /\ preco_estimado = 45925

\* C8: a render of a non-empty table that has the four required columns is
\* never aborted, whatever optional columns it has and whatever is selected.
C8_RenderChegaAoRodape ==
  (~Empty(df) /\ colunas_necessarias \subseteq df.cols) => pc # "abortado"

\* C9: once the memo holds the result of the first load it never changes
\* while the process lives (only a restart empties it), and every render
\* reads its table from it, whatever is at caminho by then.
C9_MemoDaPrimeiraCarga ==
  /\ [](pc # "inicio" => (cache.cheio /\ df = cache.df))
  /\ [][(cache.cheio /\ cache'.cheio) => cache' = cache]_vars

C9_Testemunha ==
  /\ pc = "pronto"
  /\ arquivo.estado = "ok"
  /\ ~Empty(CorpoCarregarDados(arquivo).df)
  /\ CorpoCarregarDados(arquivo).df # df

Vezes(s, x) == Cardinality({i \in 1..Len(s) : s[i] = x})
MesmasLinhas(a, b) ==
  /\ Len(a) = Len(b)
  /\ \A x \in Range(a) \cup Range(b) : Vezes(a, x) = Vezes(b, x)
DatasDistintas(rows) ==
  \A i \in 1..Len(rows), j \in 1..Len(rows) : i # j => rows[i].Data # rows[j].Data

DoisRenders ==
  /\ pc = "rodape" /\ gemea.feito /\ AvisoAlerta \notin msgs
  /\ MesmasLinhas(df_filtrado.rows, gemea.df.rows)

\* C10 as stated: two views with the same rows in a different order get the
\* same classification, rows sharing a date included.
C10_OrdemNaoImporta ==
  DoisRenders => msgs \cap Classes = gemea.msgs \cap Classes

\* C10 amended: two views with the same rows in a different order get the
\* same classification when no two rows have the same Data.
C10_OrdemNaoImportaSemEmpate ==
  (DoisRenders /\ DatasDistintas(df_filtrado.rows)) =>
     msgs \cap Classes = gemea.msgs \cap Classes

C10_Testemunha ==
  /\ DoisRenders /\ DatasDistintas(df_filtrado.rows)
  /\ gemea.df.rows # df_filtrado.rows
  /\ gemea.df.rows[1].Data > gemea.df.rows[2].Data
  /\ msgs \cap Classes = {ALTO}

====
